---- MODULE Spec2Model ----
(***************************************************************************)
(* Model of the Zep Cloud MCP server (src/core/zep_cloud_server.py) and of *)
(* the SDK-backed client it imports (src/core/zep_cloud_client.py).        *)
(*                                                                         *)
(* Python strings are modelled run-length encoded: a string is a sequence  *)
(* of runs [c |-> character, n |-> repetitions], so that the size ceilings *)
(* of the program (100000, 10000, 8000 characters) keep their real values. *)
(* A string is kept normalised (no empty run, no two adjacent runs of the  *)
(* same character), so that equality of values is equality of strings.     *)
(*                                                                         *)
(* Alphabet of the modelled strings: the structural characters of JSON and *)
(* of Python literals, both quote characters, the backslash, the space and *)
(* lowercase letters. Digits, upper-case letters and control characters    *)
(* are not part of the alphabet.                                           *)
(***************************************************************************)
EXTENDS Integers, Sequences, FiniteSets, TLC

\* ------------------------------------------------------------------------
\* Python str, run-length encoded
\* ------------------------------------------------------------------------

DQ == "\""
SQ == "'"
BS == "\\"
SP == " "

Run(c, n) == [c |-> c, n |-> n]

\* A literal string given character by character.
Lit(chars) == [i \in 1..Len(chars) |-> Run(chars[i], 1)]

RECURSIVE Norm(_)
\* Normal form: empty runs dropped, adjacent runs of one character merged.
Norm(s) ==
    IF s = <<>> THEN <<>>
    ELSE IF s[1].n = 0 THEN Norm(Tail(s))
    ELSE LET r == Norm(Tail(s)) IN
         IF r # <<>> /\ r[1].c = s[1].c
         THEN <<Run(s[1].c, s[1].n + r[1].n)>> \o Tail(r)
         ELSE <<s[1]>> \o r

\* A literal, normalised ("null" has the run ll).
Str(chars) == Norm(Lit(chars))

RECURSIVE StrLen(_)
\* len(s)
StrLen(s) == IF s = <<>> THEN 0 ELSE s[1].n + StrLen(Tail(s))

\* a + b
Concat(a, b) == Norm(a \o b)

\* s.startswith(c) and s.endswith(c) for a single character c
StartsWith(s, c) == s # <<>> /\ s[1].c = c
EndsWith(s, c) == s # <<>> /\ s[Len(s)].c = c

\* s[1:]
DropFirst(s) ==
    IF s = <<>> THEN <<>>
    ELSE IF s[1].n = 1 THEN Tail(s)
    ELSE <<Run(s[1].c, s[1].n - 1)>> \o Tail(s)

\* s[:-1]
DropLast(s) ==
    IF s = <<>> THEN <<>>
    ELSE LET k == Len(s) IN
         IF s[k].n = 1 THEN SubSeq(s, 1, k - 1)
         ELSE SubSeq(s, 1, k - 1) \o <<Run(s[k].c, s[k].n - 1)>>

\* s[1:-1]; a string of one character gives the empty string
Inner(s) == IF StrLen(s) <= 1 THEN <<>> ELSE DropLast(DropFirst(s))

RECURSIVE Prefix(_, _)
\* s[:k]
Prefix(s, k) ==
    IF s = <<>> \/ k <= 0 THEN <<>>
    ELSE IF s[1].n >= k THEN <<Run(s[1].c, k)>>
    ELSE <<s[1]>> \o Prefix(Tail(s), k - s[1].n)

\* s.lstrip(), s.rstrip(), s.strip(): the alphabet's only whitespace is the space
LStrip(s) == IF StartsWith(s, SP) THEN Tail(s) ELSE s
RStrip(s) == IF EndsWith(s, SP) THEN SubSeq(s, 1, Len(s) - 1) ELSE s
Strip(s) == RStrip(LStrip(s))

\* ------------------------------------------------------------------------
\* json.loads: does the text parse? (Python's json scanner, strict mode)
\* ------------------------------------------------------------------------

Letters ==
    {"a", "b", "c", "d", "e", "f", "g", "h", "i", "j", "k", "l", "m", "n",
     "o", "p", "q", "r", "s", "t", "u", "v", "w", "x", "y", "z"}
HexLetters == {"a", "b", "c", "d", "e", "f"}

RECURSIVE Explode(_)
\* The scanners read a string token by token: every structural character,
\* quote and backslash is one token; a run of one letter or of spaces stays
\* one token.
Explode(s) ==
    IF s = <<>> THEN <<>>
    ELSE IF s[1].c \in Letters \cup {SP} THEN <<s[1]>> \o Explode(Tail(s))
    ELSE [i \in 1..s[1].n |-> Run(s[1].c, 1)] \o Explode(Tail(s))

\* The character at token i; "" past the end.
Tok(t, i) == IF i >= 1 /\ i <= Len(t) THEN t[i].c ELSE ""

\* Skip optional whitespace.
SkipWs(t, i) == IF Tok(t, i) = SP THEN i + 1 ELSE i

RECURSIVE WordEnd(_, _)
\* First token at or after i that is not a letter.
WordEnd(t, i) == IF Tok(t, i) \in Letters THEN WordEnd(t, i + 1) ELSE i

RECURSIVE HexAhead(_, _, _)
\* Do `need` hexadecimal characters follow from token j on?
HexAhead(t, j, need) ==
    IF need <= 0 THEN TRUE
    ELSE IF Tok(t, j) \notin HexLetters THEN FALSE
    ELSE HexAhead(t, j + 1, need - t[j].n)

RECURSIVE JsonStrEnd(_, _)
\* py_scanstring: j is the token after the opening quote; the token after
\* the closing quote, or 0 when the string is unterminated or holds an
\* invalid escape.
JsonStrEnd(t, j) ==
    IF j > Len(t) THEN 0
    ELSE IF t[j].c = DQ THEN j + 1
    ELSE IF t[j].c = BS THEN
        IF Tok(t, j + 1) \in {DQ, BS, "/", "b", "f", "n", "r", "t"}
        THEN JsonStrEnd(t, j + 2)
        ELSE IF Tok(t, j + 1) = "u" /\ t[j + 1].n = 1 /\ HexAhead(t, j + 2, 4)
        THEN JsonStrEnd(t, j + 2)
        ELSE 0
    ELSE JsonStrEnd(t, j + 1)

RECURSIVE JsonValue(_, _), JsonPairs(_, _), JsonItems(_, _)
\* scan_once: the token after the value starting at token i, or 0.
JsonValue(t, i) ==
    LET c == Tok(t, i) IN
    IF c = DQ THEN JsonStrEnd(t, i + 1)
    ELSE IF c = "{" THEN
        LET j == SkipWs(t, i + 1) IN
        IF Tok(t, j) = "}" THEN j + 1 ELSE JsonPairs(t, j)
    ELSE IF c = "[" THEN
        LET j == SkipWs(t, i + 1) IN
        IF Tok(t, j) = "]" THEN j + 1 ELSE JsonItems(t, j)
    ELSE IF c \in Letters THEN
        LET e == WordEnd(t, i) IN
        IF Norm(SubSeq(t, i, e - 1)) \in
              {Str(<<"n", "u", "l", "l">>), Str(<<"t", "r", "u", "e">>),
               Str(<<"f", "a", "l", "s", "e">>)}
        THEN e ELSE 0
    ELSE 0

\* JSONObject: "key" : value pairs from token j, up to the closing brace.
JsonPairs(t, j) ==
    LET AfterValue(v) ==
            IF v = 0 THEN 0
            ELSE IF Tok(t, SkipWs(t, v)) = "}" THEN SkipWs(t, v) + 1
            ELSE IF Tok(t, SkipWs(t, v)) = "," THEN JsonPairs(t, SkipWs(t, SkipWs(t, v) + 1))
            ELSE 0
        AfterKey(e) ==
            IF e = 0 THEN 0
            ELSE IF Tok(t, SkipWs(t, e)) # ":" THEN 0
            ELSE AfterValue(JsonValue(t, SkipWs(t, SkipWs(t, e) + 1)))
    IN
    IF Tok(t, j) # DQ THEN 0 ELSE AfterKey(JsonStrEnd(t, j + 1))

\* JSONArray: values from token j, up to the closing bracket.
JsonItems(t, j) ==
    LET AfterValue(v) ==
            IF v = 0 THEN 0
            ELSE IF Tok(t, SkipWs(t, v)) = "]" THEN SkipWs(t, v) + 1
            ELSE IF Tok(t, SkipWs(t, v)) = "," THEN JsonItems(t, SkipWs(t, SkipWs(t, v) + 1))
            ELSE 0
    IN  AfterValue(JsonValue(t, j))

\* json.loads(s) returns (TRUE) or raises json.JSONDecodeError (FALSE).
JsonLoadsOk(s) ==
    LET Whole(t, e) == e # 0 /\ SkipWs(t, e) = Len(t) + 1
        Scan(t) == Whole(t, JsonValue(t, SkipWs(t, 1)))
    IN  Scan(Explode(s))

\* ------------------------------------------------------------------------
\* json.dumps(ast.literal_eval(s)): the Python literal in s, re-serialised
\* ------------------------------------------------------------------------

PyFail == [ok |-> FALSE, pos |-> 0, out |-> <<>>]
PyOk(pos, out) == [ok |-> TRUE, pos |-> pos, out |-> out]

\* json.dumps of one character of a str value.
Esc(c) == IF c = DQ THEN <<Run(BS, 1), Run(DQ, 1)>>
          ELSE IF c = BS THEN <<Run(BS, 1), Run(BS, 1)>>
          ELSE <<Run(c, 1)>>

\* The other n - 1 characters of a token whose first character was consumed.
RestOf(tok) == IF tok.n > 1 THEN <<Run(tok.c, tok.n - 1)>> ELSE <<>>

RECURSIVE ScanPy(_, _, _, _, _, _)
\* The body of a Python string literal from token j on, delimited by quote q
\* (three of them when triple), raw or not; acc is the JSON-escaped text of
\* the characters read so far. Escapes whose JSON form needs a digit
\* (\a, \v, \x..) are outside the alphabet and reported as a failure.
ScanPy(t, j, q, triple, raw, acc) ==
    IF j > Len(t) THEN PyFail
    ELSE IF t[j].c = q THEN
        IF ~triple THEN PyOk(j + 1, acc)
        ELSE IF Tok(t, j + 1) = q /\ Tok(t, j + 2) = q THEN PyOk(j + 3, acc)
        ELSE ScanPy(t, j + 1, q, triple, raw, acc \o Esc(q))
    ELSE IF t[j].c = BS THEN
        IF j + 1 > Len(t) THEN PyFail
        ELSE LET e == t[j + 1].c
                 rest == RestOf(t[j + 1])
             IN
             IF raw THEN
                 ScanPy(t, j + 2, q, triple, raw, acc \o Esc(BS) \o Esc(e) \o rest)
             ELSE IF e \in {SQ, DQ, BS} THEN
                 ScanPy(t, j + 2, q, triple, raw, acc \o Esc(e) \o rest)
             ELSE IF e \in {"n", "r", "t", "f", "b"} THEN
                 ScanPy(t, j + 2, q, triple, raw, acc \o <<Run(BS, 1), Run(e, 1)>> \o rest)
             ELSE IF e = "u" THEN
                 IF t[j + 1].n = 1 /\ HexAhead(t, j + 2, 4)
                 THEN ScanPy(t, j + 2, q, triple, raw, acc \o <<Run(BS, 1), Run(e, 1)>>)
                 ELSE PyFail
             ELSE IF e \in {"a", "v", "x"} THEN PyFail
             ELSE ScanPy(t, j + 2, q, triple, raw, acc \o Esc(BS) \o Esc(e) \o rest)
    ELSE IF t[j].c = DQ THEN ScanPy(t, j + 1, q, triple, raw, acc \o Esc(DQ))
    ELSE ScanPy(t, j + 1, q, triple, raw, acc \o <<t[j]>>)

\* Does a string literal start at token i? (a quote, or the prefix u or r
\* directly followed by a quote)
PyStrStart(t, i) ==
    \/ Tok(t, i) \in {SQ, DQ}
    \/ /\ Tok(t, i) \in {"u", "r"}
       /\ t[i].n = 1
       /\ Tok(t, i + 1) \in {SQ, DQ}

\* One string literal at token i: out is the JSON-escaped text of its value.
PyString(t, i) ==
    IF ~PyStrStart(t, i) THEN PyFail
    ELSE LET raw == Tok(t, i) = "r"
             k == IF Tok(t, i) \in {SQ, DQ} THEN i ELSE i + 1
             q == Tok(t, k)
             triple == Tok(t, k + 1) = q /\ Tok(t, k + 2) = q
         IN  ScanPy(t, IF triple THEN k + 3 ELSE k + 1, q, triple, raw, <<>>)

RECURSIVE PyStrings(_, _, _)
\* Adjacent string literals are concatenated.
PyStrings(t, i, acc) ==
    LET AfterString(r) ==
            IF ~r.ok THEN PyFail
            ELSE IF PyStrStart(t, SkipWs(t, r.pos))
            THEN PyStrings(t, SkipWs(t, r.pos), acc \o r.out)
            ELSE PyOk(r.pos, acc \o r.out)
    IN  AfterString(PyString(t, i))

RECURSIVE JoinItems(_)
\* ", ".join(items)
JoinItems(items) ==
    IF items = <<>> THEN <<>>
    ELSE IF Len(items) = 1 THEN items[1]
    ELSE items[1] \o <<Run(",", 1), Run(SP, 1)>> \o JoinItems(Tail(items))

RECURSIVE PutPair(_, _, _)
\* d[k] = v on an insertion-ordered dict: a repeated key keeps its place and
\* takes the new value.
PutPair(pairs, k, v) ==
    IF pairs = <<>> THEN <<[k |-> k, v |-> v]>>
    ELSE IF pairs[1].k = k THEN <<[k |-> k, v |-> v]>> \o Tail(pairs)
    ELSE <<pairs[1]>> \o PutPair(Tail(pairs), k, v)

\* The members of a JSON object as json.dumps writes them.
PairTexts(pairs) ==
    [i \in 1..Len(pairs) |->
        <<Run(DQ, 1)>> \o pairs[i].k \o <<Run(DQ, 1), Run(":", 1), Run(SP, 1)>>
        \o pairs[i].v]

RECURSIVE PyValue(_, _), PyDict(_, _, _), PyList(_, _, _)
\* The literal starting at token i: out is json.dumps of its value. A set, a
\* name, an unhashable key and every syntax error are failures
\* (ast.literal_eval or json.dumps raises).
PyValue(t, i) ==
    LET Dumped(r) ==
            IF r.ok THEN PyOk(r.pos, <<Run(DQ, 1)>> \o r.out \o <<Run(DQ, 1)>>)
            ELSE PyFail
    IN
    IF PyStrStart(t, i) THEN Dumped(PyStrings(t, i, <<>>))
    ELSE IF Tok(t, i) = "{" THEN PyDict(t, SkipWs(t, i + 1), <<>>)
    ELSE IF Tok(t, i) = "[" THEN PyList(t, SkipWs(t, i + 1), <<>>)
    ELSE PyFail

\* Dict display from token j on (after the brace or after a comma).
PyDict(t, j, pairs) ==
    LET Rest(m, more) ==
            IF Tok(t, m) = "," THEN PyDict(t, SkipWs(t, m + 1), more)
            ELSE IF Tok(t, m) = "}" THEN PyDict(t, m, more)
            ELSE PyFail
        AfterValue(key, v) ==
            IF ~v.ok THEN PyFail
            ELSE Rest(SkipWs(t, v.pos), PutPair(pairs, Norm(key.out), v.out))
        AfterKey(key) ==
            IF ~key.ok THEN PyFail
            ELSE IF Tok(t, SkipWs(t, key.pos)) # ":" THEN PyFail
            ELSE AfterValue(key, PyValue(t, SkipWs(t, SkipWs(t, key.pos) + 1)))
    IN
    IF Tok(t, j) = "}" THEN
        PyOk(j + 1, <<Run("{", 1)>> \o JoinItems(PairTexts(pairs)) \o <<Run("}", 1)>>)
    ELSE IF ~PyStrStart(t, j) THEN PyFail
    ELSE AfterKey(PyStrings(t, j, <<>>))

\* List display from token j on (after the bracket or after a comma).
PyList(t, j, items) ==
    LET Rest(m, more) ==
            IF Tok(t, m) = "," THEN PyList(t, SkipWs(t, m + 1), more)
            ELSE IF Tok(t, m) = "]" THEN PyList(t, m, more)
            ELSE PyFail
        AfterValue(v) ==
            IF ~v.ok THEN PyFail ELSE Rest(SkipWs(t, v.pos), items \o <<v.out>>)
    IN
    IF Tok(t, j) = "]" THEN
        PyOk(j + 1, <<Run("[", 1)>> \o JoinItems(items) \o <<Run("]", 1)>>)
    ELSE AfterValue(PyValue(t, j))

RECURSIVE PyTuple(_, _, _)
\* An expression list v1, v2, ... at the top level is a tuple, which
\* json.dumps writes as an array.
PyTuple(t, j, items) ==
    LET Rest(m, more) ==
            IF Tok(t, m) = "," THEN PyTuple(t, SkipWs(t, m + 1), more)
            ELSE IF m = Len(t) + 1 THEN PyTuple(t, m, more)
            ELSE PyFail
        AfterValue(v) ==
            IF ~v.ok THEN PyFail ELSE Rest(SkipWs(t, v.pos), items \o <<v.out>>)
    IN
    IF j = Len(t) + 1 THEN
        PyOk(j, <<Run("[", 1)>> \o JoinItems(items) \o <<Run("]", 1)>>)
    ELSE AfterValue(PyValue(t, j))

\* json.dumps(ast.literal_eval(s)): [ok, out]; ok is FALSE when either call
\* raises. literal_eval strips leading spaces itself.
LiteralDumps(s) ==
    LET Dumped(r) == [ok |-> r.ok, out |-> Norm(r.out)]
        Whole(t, v, m) ==
            IF m = Len(t) + 1 THEN Dumped(v)
            ELSE IF Tok(t, m) = "," THEN Dumped(PyTuple(t, SkipWs(t, m + 1), <<v.out>>))
            ELSE [ok |-> FALSE, out |-> <<>>]
        AfterValue(t, v) ==
            IF ~v.ok THEN [ok |-> FALSE, out |-> <<>>]
            ELSE Whole(t, v, SkipWs(t, v.pos))
        Scan(t) == AfterValue(t, PyValue(t, SkipWs(t, 1)))
    IN  Scan(Explode(s))

RECURSIVE HasRunsAt(_, _, _)
\* Do the runs of pattern p match s from run i on? Inner runs must be equal;
\* the outer ones may be longer in s.
HasRunsAt(s, i, p) ==
    LET k == Len(p) IN
    /\ i + k - 1 <= Len(s)
    /\ \A j \in 1..k :
          /\ s[i + j - 1].c = p[j].c
          /\ IF j = 1 \/ j = k THEN s[i + j - 1].n >= p[j].n
             ELSE s[i + j - 1].n = p[j].n

\* p in s, for normalised strings
Contains(s, p) == p = <<>> \/ \E i \in 1..Len(s) : HasRunsAt(s, i, p)

\* c.lower() on the upper-case letters a query may hold
LowerChar(c) == CASE c = "U" -> "u" [] c = "I" -> "i" [] c = "D" -> "d" [] OTHER -> c

\* s.lower()
Lower(s) == Norm([i \in 1..Len(s) |-> Run(LowerChar(s[i].c), s[i].n)])

\* ------------------------------------------------------------------------
\* Values passed to and returned by the operations
\* ------------------------------------------------------------------------

\* Python's None where a string is expected
NONE == "<None>"

\* The data argument of add_graph_data: None, a str, or a dict. For a dict,
\* s is the text json.dumps gives (for a dict json.dumps cannot serialise,
\* the text of str(data)), keys is len(data). The dicts of the model hold
\* plain strings only, for which str(data) and json.dumps(data) have the
\* same length.
NoData == [t |-> "none", s |-> <<>>, keys |-> 0, ser |-> TRUE]
StrData(s) == [t |-> "str", s |-> s, keys |-> 0, ser |-> TRUE]
DictData(s, keys, ser) == [t |-> "dict", s |-> s, keys |-> keys, ser |-> ser]

\* len(str(data)), and len(data) (defined for a str and a dict)
StrOfLen(data) == IF data.t = "none" THEN 4 ELSE StrLen(data.s)
PyLen(data) == IF data.t = "dict" THEN data.keys ELSE StrLen(data.s)

\* A request to the remote service.
Req(op, user_id, kind, data) ==
    [op |-> op, user_id |-> user_id, kind |-> kind, data |-> data, meta |-> "absent"]

\* A request whose data member is the dict itself, not a str holding its
\* JSON text (data is the text of the member as the request body spells it).
DictReq(op, user_id, kind, data) ==
    [op |-> op, user_id |-> user_id, kind |-> kind, data |-> data, meta |-> "absent",
     member |-> "dict"]

\* A user request carrying the metadata mapping meta ("absent": no metadata
\* key in the request, "{}": the empty mapping).
UserReq(op, user_id, meta) ==
    [op |-> op, user_id |-> user_id, kind |-> "", data |-> <<>>, meta |-> meta]

\* What a method or a tool hands back: shape is the Python type of the
\* result ("dict", "none", "true", "false", "list"); for a dict, success is
\* the value of its "success" key ("missing" without one, "remote" for the
\* remote service's JSON handed back as it came), fallback tells
\* whether it holds "fallback": True and error is its "error" text ("" without
\* one). raised names the exception that left the call ("" when it returned);
\* sent are the requests the call made. connected and fallback_mode are the
\* keys of check_connection's result ("missing" in every other result).
Result(shape, success, fallback, error, len) ==
    [shape |-> shape, success |-> success, fallback |-> fallback,
     error |-> error, data_length |-> len,
     connected |-> "missing", fallback_mode |-> "missing"]
Failure(error) == Result("dict", "false", FALSE, error, 0)
NoResult == Result("none", "missing", FALSE, "", 0)

\* A member of a JSON object, or an attribute of an SDK object, that holds a
\* list: absent, or present with the ids of its items in their order.
Absent == [has |-> FALSE, items |-> <<>>]
Member(items) == [has |-> TRUE, items |-> items]

\* The "query" member of a search result: absent, or the text q.
NoQuery == [has |-> FALSE, s |-> <<>>]
QueryMember(q) == [has |-> TRUE, s |-> q]

\* The "summary" of a search result: "Found N results for query ..." with
\* ", including X nodes" when there are nodes and ", including Y
\* edges/facts" when there are edges (a count of 0: the part is left out),
\* or "No results found for query ...".
Summary(results, nodes, edges) ==
    IF Len(results) > 0
    THEN [text |-> "Found", results |-> Len(results),
          nodes |-> Len(nodes.items), edges |-> Len(edges.items)]
    ELSE [text |-> "No results found", results |-> 0, nodes |-> 0, edges |-> 0]

\* The dict search_graph hands back on success; edges, nodes and results
\* are members, absent when the dict has no such key.
SearchResult(fallback, query, edges, nodes, results, summary) ==
    Result("dict", "true", fallback, "", 0) @@
    [query |-> query, edges |-> edges, nodes |-> nodes, results |-> results,
     summary |-> summary]

\* The user a result holds: a result with the keys "user_id" and "metadata"
\* (metadata "missing": the dict has no such key, "{}": the empty mapping).
UserRecord(res, user_id, metadata) ==
    res @@ [user_id |-> user_id, metadata |-> metadata]

\* The mapping `metadata or {}` / `metadata if metadata is not None else {}`
OrEmpty(metadata) == IF metadata = NONE THEN "{}" ELSE metadata

Returned(res, sent) == [raised |-> "", res |-> res, sent |-> sent]
Raised(exc, sent) == [raised |-> exc, res |-> NoResult, sent |-> sent]

valid_types == {"text", "json", "message"}

\* ------------------------------------------------------------------------
\* The SDK-backed client (zep_cloud_client.py). `ok` tells whether the
\* remote service carries out the request; the SDK raises when it does not.
\* ------------------------------------------------------------------------

SdkMaxData == 100000
RestMaxData == 10000
MaxQuery == 8000

\* The validation of ZepCloudClient.add_graph_data (SDK) removing a pair of
\* single quotes as it removes a pair of double quotes
SdkValidateJson_any_quote(s) ==
    IF JsonLoadsOk(s) THEN [ok |-> TRUE, s |-> s]
    ELSE IF /\ \/ StartsWith(s, DQ) /\ EndsWith(s, DQ)
               \/ StartsWith(s, SQ) /\ EndsWith(s, SQ)
            /\ StrLen(s) > 2 THEN
        LET inner_data == Inner(s) IN
        IF /\ \/ StartsWith(LStrip(inner_data), "{")
              \/ StartsWith(LStrip(inner_data), "[")
           /\ JsonLoadsOk(inner_data)
        THEN [ok |-> TRUE, s |-> inner_data]
        ELSE [ok |-> FALSE, s |-> s]
    ELSE [ok |-> FALSE, s |-> s]

\* The JSON validation of add_graph_data for a str: [ok, s], s being the
\* text to send. The one repair is the removal of a pair of double quotes
\* around text that starts with a brace or a bracket and parses.
SdkValidateJson(s) ==
    IF JsonLoadsOk(s) THEN [ok |-> TRUE, s |-> s]
    ELSE IF StartsWith(s, DQ) /\ EndsWith(s, DQ) /\ StrLen(s) > 2 THEN
        LET inner_data == Inner(s) IN
        IF /\ \/ StartsWith(LStrip(inner_data), "{")
              \/ StartsWith(LStrip(inner_data), "[")
           /\ JsonLoadsOk(inner_data)
        THEN [ok |-> TRUE, s |-> inner_data]
        ELSE [ok |-> FALSE, s |-> s]
    ELSE [ok |-> FALSE, s |-> s]

\* ZepCloudClient.add_graph_data (SDK) with the size test written `>=`: a
\* payload of exactly SdkMaxData characters is turned away.
SdkAddGraphData_size_inclusive(user_id, data, data_type, ok) ==
    IF user_id \in {"", NONE} THEN Returned(Failure("User ID is required"), <<>>)
    ELSE IF data.t = "none" THEN Returned(Failure("Data is required"), <<>>)
    ELSE IF data_type \notin valid_types THEN Returned(Failure("Invalid data type"), <<>>)
    ELSE IF data_type = "json" /\ data.t = "dict" /\ ~data.ser
    THEN Returned(Failure("Error converting dict to JSON"), <<>>)
    ELSE
        LET d == IF data_type = "json" /\ data.t = "dict" THEN StrData(data.s) ELSE data
            data_len == IF d.t = "str" THEN StrLen(d.s) ELSE StrOfLen(d)
            Add(out) ==
                IF ok
                THEN Returned(Result("dict", "true", FALSE, "", PyLen(out)),
                              <<Req("graph.add", user_id, data_type, out.s)>>)
                ELSE Returned(Failure("Exception adding graph data"),
                              <<Req("graph.add", user_id, data_type, out.s)>>)
            Validated(v) ==
                IF ~v.ok THEN Returned(Failure("Invalid JSON data"), <<>>)
                ELSE Add(StrData(v.s))
        IN
        IF data_len >= SdkMaxData THEN Returned(Failure("Data size exceeds 100KB limit"), <<>>)
        ELSE IF data_type = "json" THEN Validated(SdkValidateJson(d.s))
        ELSE Add(d)

\* ZepCloudClient.add_graph_data (SDK)
SdkAddGraphData(user_id, data, data_type, ok) ==
    IF user_id \in {"", NONE} THEN Returned(Failure("User ID is required"), <<>>)
    ELSE IF data.t = "none" THEN Returned(Failure("Data is required"), <<>>)
    ELSE IF data_type \notin valid_types THEN Returned(Failure("Invalid data type"), <<>>)
    ELSE IF data_type = "json" /\ data.t = "dict" /\ ~data.ser
    THEN Returned(Failure("Error converting dict to JSON"), <<>>)
    ELSE
        LET d == IF data_type = "json" /\ data.t = "dict" THEN StrData(data.s) ELSE data
            data_len == IF d.t = "str" THEN StrLen(d.s) ELSE StrOfLen(d)
            Add(out) ==
                IF ok
                THEN Returned(Result("dict", "true", FALSE, "", PyLen(out)),
                              <<Req("graph.add", user_id, data_type, out.s)>>)
                ELSE Returned(Failure("Exception adding graph data"),
                              <<Req("graph.add", user_id, data_type, out.s)>>)
            Validated(v) ==
                IF ~v.ok THEN Returned(Failure("Invalid JSON data"), <<>>)
                ELSE Add(StrData(v.s))
        IN
        IF data_len > SdkMaxData THEN Returned(Failure("Data size exceeds 100KB limit"), <<>>)
        ELSE IF data_type = "json" THEN Validated(SdkValidateJson(d.s))
        ELSE Add(d)

\* ZepCloudClient.create_user (SDK): the user as a dict, None on any error
SdkCreateUser(user_id, metadata, ok) ==
    LET metadata_dict == OrEmpty(metadata)
        sent == <<UserReq("user.add", user_id, metadata_dict)>>
    IN
    IF ok THEN Returned(UserRecord(Result("dict", "missing", FALSE, "", 0),
                                   user_id, metadata_dict), sent)
    ELSE Returned(NoResult, sent)

\* ZepCloudClient.get_user (SDK): the user as a dict, None when the SDK
\* returns no user or raises. stored is the metadata the remote service
\* holds for the user.
SdkGetUser(user_id, ok, stored) ==
    LET sent == <<Req("user.get", user_id, "", <<>>)>> IN
    IF ok THEN Returned(UserRecord(Result("dict", "missing", FALSE, "", 0),
                                   user_id, stored), sent)
    ELSE Returned(NoResult, sent)

\* ZepCloudClient.update_user (SDK)
SdkUpdateUser(user_id, metadata, ok) ==
    LET metadata_dict == OrEmpty(metadata)
        sent == <<UserReq("user.update", user_id, metadata_dict)>>
    IN
    IF ok THEN Returned(UserRecord(Result("dict", "missing", FALSE, "", 0),
                                   user_id, metadata_dict), sent)
    ELSE Returned(NoResult, sent)

\* ZepCloudClient.delete_user (SDK) calling the SDK a second time when the
\* first call raised
SdkDeleteUser_retries(user_id, ok) ==
    LET sent == <<Req("user.delete", user_id, "", <<>>)>> IN
    IF ok THEN Returned(Result("true", "missing", FALSE, "", 0), sent)
    ELSE Returned(Result("false", "missing", FALSE, "", 0), sent \o sent)

\* ZepCloudClient.delete_user (SDK): True, or False on any error
SdkDeleteUser(user_id, ok) ==
    LET sent == <<Req("user.delete", user_id, "", <<>>)>> IN
    IF ok THEN Returned(Result("true", "missing", FALSE, "", 0), sent)
    ELSE Returned(Result("false", "missing", FALSE, "", 0), sent)

\* ZepCloudClient.list_users (SDK): takes no argument; a list, empty on error
SdkListUsers(ok) ==
    Returned(Result("list", "missing", FALSE, "", 0),
             <<Req("user.list_ordered", NONE, "", <<>>)>>)

\* ZepCloudClient.search_graph (SDK): the query is cut to MaxQuery
\* characters; a dict with success True, None on any error. answer is what
\* the remote service found; the dict gets the key "edges" (and "nodes")
\* only when there are some.
SdkSearchGraph(user_id, query, ok, answer) ==
    LET q == IF StrLen(query) > MaxQuery THEN Prefix(query, MaxQuery) ELSE query
        sent == <<Req("graph.search", user_id, "", q)>>
        edges == IF answer.edges.has /\ answer.edges.items # <<>>
                 THEN Member(answer.edges.items) ELSE Absent
        nodes == IF answer.nodes.has /\ answer.nodes.items # <<>>
                 THEN Member(answer.nodes.items) ELSE Absent
        results == edges.items \o nodes.items
    IN
    IF ok THEN Returned(SearchResult(FALSE, QueryMember(q), edges, nodes, Member(results),
                                     Summary(results, nodes, edges)), sent)
    ELSE Returned(NoResult, sent)

\* ------------------------------------------------------------------------
\* The REST-backed client defined in zep_cloud_server.py when the import of
\* the SDK-backed one fails. fb is self.fallback_mode; _make_request raises
\* on a transport error and on a status that is not 2xx.
\* ------------------------------------------------------------------------

\* A simulated result: "success": True, "fallback": True
Simulated(len) == Result("dict", "true", TRUE, "", len)

\* ZepCloudClient.create_user (REST)
RestCreateUser(fb, user_id, metadata, ok) ==
    LET m == IF metadata = "null" THEN NONE ELSE metadata
        sent == <<UserReq("POST /users", user_id, IF m = NONE THEN "absent" ELSE m)>>
    IN
    IF fb THEN Returned(UserRecord(Simulated(0), user_id, OrEmpty(m)), <<>>)
    ELSE IF ok THEN Returned(UserRecord(Result("dict", "remote", FALSE, "", 0),
                                        user_id, OrEmpty(m)), sent)
    ELSE Returned(Failure("request failed"), sent)

\* ZepCloudClient.get_user (REST): the simulated result has no "metadata"
\* key; stored is the metadata the remote service holds for the user.
RestGetUser(fb, user_id, ok, stored) ==
    LET sent == <<Req("GET /users/id", user_id, "", <<>>)>> IN
    IF fb THEN Returned(UserRecord(Simulated(0), user_id, "missing"), <<>>)
    ELSE IF ok THEN Returned(UserRecord(Result("dict", "remote", FALSE, "", 0),
                                        user_id, stored), sent)
    ELSE Returned(Failure("request failed"), sent)

\* ZepCloudClient.update_user (REST) building its request as create_user
\* does: "metadata" only when there is some
RestUpdateUser_omits_empty(fb, user_id, metadata, ok) ==
    LET m == IF metadata = "null" THEN NONE ELSE metadata
        sent == <<UserReq("PATCH /users/id", user_id, IF m = NONE THEN "absent" ELSE m)>>
    IN
    IF fb THEN Returned(UserRecord(Simulated(0), user_id, OrEmpty(m)), <<>>)
    ELSE IF ok THEN Returned(UserRecord(Result("dict", "remote", FALSE, "", 0),
                                        user_id, OrEmpty(m)), sent)
    ELSE Returned(Failure("request failed"), sent)

\* ZepCloudClient.update_user (REST)
RestUpdateUser(fb, user_id, metadata, ok) ==
    LET m == IF metadata = "null" THEN NONE ELSE metadata
        sent == <<UserReq("PATCH /users/id", user_id, OrEmpty(m))>>
    IN
    IF fb THEN Returned(UserRecord(Simulated(0), user_id, OrEmpty(m)), <<>>)
    ELSE IF ok THEN Returned(UserRecord(Result("dict", "remote", FALSE, "", 0),
                                        user_id, OrEmpty(m)), sent)
    ELSE Returned(Failure("request failed"), sent)

\* ZepCloudClient.delete_user (REST)
RestDeleteUser(fb, user_id, ok) ==
    LET sent == <<Req("DELETE /users/id", user_id, "", <<>>)>> IN
    IF fb THEN Returned(Simulated(0), <<>>)
    ELSE IF ok THEN Returned(Result("dict", "true", FALSE, "", 0), sent)
    ELSE Returned(Failure("request failed"), sent)

\* The default limit of list_users
DefaultLimit == 100

\* GET /users?limit=...: &cursor=... is added for a cursor that is not
\* empty and not None
ListReq(limit, cursor) ==
    Req("GET /users", NONE, "", <<>>) @@
    [limit |-> limit, cursor |-> IF cursor \in {NONE, ""} THEN "absent" ELSE cursor]

\* ZepCloudClient.list_users (REST)
RestListUsers(fb, limit, cursor, ok) ==
    LET sent == <<ListReq(limit, cursor)>> IN
    IF fb THEN Returned(Simulated(0), <<>>)
    ELSE IF ok THEN Returned(Result("dict", "remote", FALSE, "", 0), sent)
    ELSE Returned(Failure("request failed"), sent)

\* ZepCloudClient.search_graph (REST) with the nodes copied to "results"
\* before the edges.
RestSearchGraph_nodes_first(fb, user_id, query, ok, answer) ==
    LET sent == <<Req("POST /graph/search", user_id, "", query)>>
        results == IF answer.results.has THEN answer.results.items
                   ELSE answer.nodes.items \o answer.edges.items
    IN
    IF fb THEN Returned(SearchResult(TRUE, QueryMember(query), Member(<<>>), Member(<<>>),
                                     Member(<<>>),
                                     [text |-> "No results found", results |-> 0,
                                      nodes |-> 0, edges |-> 0]), <<>>)
    ELSE IF ok THEN Returned(SearchResult(FALSE, NoQuery, answer.edges, answer.nodes,
                                          Member(results),
                                          Summary(results, answer.nodes, answer.edges)),
                             sent)
    ELSE Returned(Failure("request failed"), sent)

\* ZepCloudClient.search_graph (REST): the query is sent as given. The
\* result is the remote service's JSON with "success" and "summary" added,
\* and with "results" added (edges, then nodes) when the JSON has no such
\* member.
RestSearchGraph(fb, user_id, query, ok, answer) ==
    LET sent == <<Req("POST /graph/search", user_id, "", query)>>
        results == IF answer.results.has THEN answer.results.items
                   ELSE answer.edges.items \o answer.nodes.items
    IN
    IF fb THEN Returned(SearchResult(TRUE, QueryMember(query), Member(<<>>), Member(<<>>),
                                     Member(<<>>),
                                     [text |-> "No results found", results |-> 0,
                                      nodes |-> 0, edges |-> 0]), <<>>)
    ELSE IF ok THEN Returned(SearchResult(FALSE, NoQuery, answer.edges, answer.nodes,
                                          Member(results),
                                          Summary(results, answer.nodes, answer.edges)),
                             sent)
    ELSE Returned(Failure("request failed"), sent)

\* ZepCloudClient.add_graph_data (REST): len(data) raises TypeError for None;
\* data longer than RestMaxData is cut to its first RestMaxData characters
\* (a dict that long cannot be sliced: TypeError). A dict goes into the
\* request body as it is; when it cannot be serialised the request raises
\* before anything is sent.
RestAddGraphData(fb, user_id, data, data_type, ok) ==
    IF data.t = "none" THEN Raised("TypeError", <<>>)
    ELSE IF fb THEN Returned(Simulated(PyLen(data)), <<>>)
    ELSE IF PyLen(data) > RestMaxData /\ data.t = "dict" THEN Raised("TypeError", <<>>)
    ELSE
        LET d == IF PyLen(data) > RestMaxData
                 THEN StrData(Prefix(data.s, RestMaxData)) ELSE data
            sent == IF d.t = "dict"
                    THEN <<DictReq("POST /graph", user_id, data_type, d.s)>>
                    ELSE <<Req("POST /graph", user_id, data_type, d.s)>>
        IN
        IF data_type \notin valid_types THEN Returned(Failure("Invalid data type"), <<>>)
        ELSE IF d.t = "dict" /\ ~d.ser THEN Returned(Failure("request failed"), <<>>)
        ELSE IF ok THEN Returned(Result("dict", "true", FALSE, "", PyLen(d)), sent)
        ELSE Returned(Failure("request failed"), sent)

\* ------------------------------------------------------------------------
\* The tools of zep_cloud_server.py. cl is the module-level name `client`:
\* "sdk" or "rest" for the client constructed at start-up, "undefined" when
\* the construction raised and the name was never bound (NameError on use).
\* fb is client.fallback_mode. A tool returns json.dumps(result).
\* ------------------------------------------------------------------------

\* create_user (tool)
CreateUserTool(cl, fb, user_id, metadata, ok) ==
    LET m == IF metadata = "null" THEN NONE ELSE metadata IN
    IF cl = "undefined" THEN Raised("NameError", <<>>)
    ELSE IF cl = "sdk" THEN SdkCreateUser(user_id, m, ok)
    ELSE RestCreateUser(fb, user_id, m, ok)

\* get_user (tool)
GetUserTool(cl, fb, user_id, ok, stored) ==
    IF cl = "undefined" THEN Raised("NameError", <<>>)
    ELSE IF cl = "sdk" THEN SdkGetUser(user_id, ok, stored)
    ELSE RestGetUser(fb, user_id, ok, stored)

\* update_user (tool) handing the metadata to the client as it came
UpdateUserTool_passes_null(cl, fb, user_id, metadata, ok) ==
    IF cl = "undefined" THEN Raised("NameError", <<>>)
    ELSE IF cl = "sdk" THEN SdkUpdateUser(user_id, metadata, ok)
    ELSE RestUpdateUser(fb, user_id, metadata, ok)

\* update_user (tool)
UpdateUserTool(cl, fb, user_id, metadata, ok) ==
    LET m == IF metadata = "null" THEN NONE ELSE metadata IN
    IF cl = "undefined" THEN Raised("NameError", <<>>)
    ELSE IF cl = "sdk" THEN SdkUpdateUser(user_id, m, ok)
    ELSE RestUpdateUser(fb, user_id, m, ok)

\* delete_user (tool)
DeleteUserTool(cl, fb, user_id, ok) ==
    IF cl = "undefined" THEN Raised("NameError", <<>>)
    ELSE IF cl = "sdk" THEN SdkDeleteUser(user_id, ok)
    ELSE RestDeleteUser(fb, user_id, ok)

\* list_users (tool): calls client.list_users(limit, cursor); the SDK-backed
\* method takes no argument (TypeError)
ListUsersTool(cl, fb, limit, cursor, ok) ==
    IF cl = "undefined" THEN Raised("NameError", <<>>)
    ELSE IF cl = "sdk" THEN Raised("TypeError", <<>>)
    ELSE RestListUsers(fb, limit, cursor, ok)

\* check_connection (tool): reads the module-level fallback_mode
CheckConnectionTool(fm) ==
    Returned([Result("dict", "missing", FALSE, "", 0) EXCEPT
                 !.connected = IF fm THEN "false" ELSE "true",
                 !.fallback_mode = IF fm THEN "true" ELSE "false"], <<>>)

UserInformation ==
    Str(<<"u", "s", "e", "r", " ", "i", "n", "f", "o", "r", "m", "a", "t", "i", "o", "n">>)

\* The rewriting of the query with the three terms looked for in the query
\* as it is written, without lower().
ToolQuery_case_sensitive(query) ==
    LET q == IF StrLen(query) > MaxQuery THEN Prefix(query, MaxQuery) ELSE query IN
    IF q = <<>> \/ Strip(q) = <<>> THEN UserInformation
    ELSE IF /\ ~Contains(q, Str(<<"u", "s", "e", "r">>))
            /\ ~Contains(q, Str(<<"i", "n", "f", "o", "r", "m", "a", "t", "i", "o", "n">>))
            /\ ~Contains(q, Str(<<"d", "a", "t", "a">>))
    THEN Concat(q, Concat(<<Run(SP, 1)>>, UserInformation))
    ELSE q

\* The query search_graph (tool) hands to the client
ToolQuery(query) ==
    LET q == IF StrLen(query) > MaxQuery THEN Prefix(query, MaxQuery) ELSE query
        lower_query == Lower(q)
    IN
    IF q = <<>> \/ Strip(q) = <<>> THEN UserInformation
    ELSE IF /\ ~Contains(lower_query, Str(<<"u", "s", "e", "r">>))
            /\ ~Contains(lower_query,
                  Str(<<"i", "n", "f", "o", "r", "m", "a", "t", "i", "o", "n">>))
            /\ ~Contains(lower_query, Str(<<"d", "a", "t", "a">>))
    THEN Concat(q, Concat(<<Run(SP, 1)>>, UserInformation))
    ELSE q

\* search_graph (tool)
SearchGraphTool(cl, fb, user_id, query, ok, answer) ==
    IF cl = "undefined" THEN Raised("NameError", <<>>)
    ELSE IF cl = "sdk" THEN SdkSearchGraph(user_id, ToolQuery(query), ok, answer)
    ELSE RestSearchGraph(fb, user_id, ToolQuery(query), ok, answer)

\* The repair of a str that json.loads rejected (add_graph_data, tool): a
\* pair of single quotes is removed; a pair of double quotes is removed when
\* the text inside starts with a brace or bracket and parses; the text is
\* stripped; text in braces is read as a Python literal and serialised
\* again when that succeeds.
ToolFixJson(s) ==
    LET unquoted ==
            IF StartsWith(s, SQ) /\ EndsWith(s, SQ) THEN Inner(s)
            ELSE IF StartsWith(s, DQ) /\ EndsWith(s, DQ) /\ StrLen(s) > 2 THEN
                LET inner_data == Inner(s) IN
                IF /\ \/ StartsWith(LStrip(inner_data), "{")
                      \/ StartsWith(LStrip(inner_data), "[")
                   /\ JsonLoadsOk(inner_data)
                THEN inner_data ELSE s
            ELSE s
        Literal(stripped, lit) == IF lit.ok THEN lit.out ELSE stripped
        Braces(stripped) ==
            IF StartsWith(stripped, "{") /\ EndsWith(stripped, "}")
            THEN Literal(stripped, LiteralDumps(stripped))
            ELSE stripped
    IN  Braces(Strip(unquoted))

\* add_graph_data (tool) without the final validation of the repaired text
ToolPrepare_unvalidated(data, data_type) ==
    IF data.t # "str" /\ data_type = "json" /\ ~data.ser
    THEN [ok |-> FALSE, data |-> data, error |-> "Failed to convert Python dict to JSON string"]
    ELSE
        LET d == IF data.t = "str" \/ data_type # "json" THEN data
                 ELSE IF data.t = "none" THEN StrData(Str(<<"n", "u", "l", "l">>))
                 ELSE StrData(data.s)
        IN
        IF data_type \notin valid_types
        THEN [ok |-> FALSE, data |-> d, error |-> "Invalid data type"]
        ELSE IF data_type # "json" \/ JsonLoadsOk(d.s)
        THEN [ok |-> TRUE, data |-> d, error |-> ""]
        ELSE LET Fixed(fixed) ==
                     [ok |-> TRUE, data |-> StrData(fixed), error |-> ""]
             IN  Fixed(ToolFixJson(d.s))

\* add_graph_data (tool), up to the call of the client: [ok, data, error];
\* data is what the client is called with.
ToolPrepare(data, data_type) ==
    IF data.t # "str" /\ data_type = "json" /\ ~data.ser
    THEN [ok |-> FALSE, data |-> data, error |-> "Failed to convert Python dict to JSON string"]
    ELSE
        LET d == IF data.t = "str" \/ data_type # "json" THEN data
                 ELSE IF data.t = "none" THEN StrData(Str(<<"n", "u", "l", "l">>))
                 ELSE StrData(data.s)
        IN
        IF data_type \notin valid_types
        THEN [ok |-> FALSE, data |-> d, error |-> "Invalid data type"]
        ELSE IF data_type # "json" \/ JsonLoadsOk(d.s)
        THEN [ok |-> TRUE, data |-> d, error |-> ""]
        ELSE LET Fixed(fixed) ==
                     IF JsonLoadsOk(fixed)
                     THEN [ok |-> TRUE, data |-> StrData(fixed), error |-> ""]
                     ELSE [ok |-> FALSE, data |-> StrData(fixed),
                           error |-> "Invalid JSON format"]
             IN  Fixed(ToolFixJson(d.s))

\* The client's add_graph_data, whichever client was constructed
ClientAddGraphData(cl, fb, user_id, data, data_type, ok) ==
    IF cl = "sdk" THEN SdkAddGraphData(user_id, data, data_type, ok)
    ELSE RestAddGraphData(fb, user_id, data, data_type, ok)

\* add_graph_data (tool): every exception of the client call is caught and
\* reported as a failure
AddGraphDataTool(cl, fb, user_id, data, data_type, ok) ==
    LET Caught(r) == IF r.raised # "" THEN Returned(Failure(r.raised), r.sent) ELSE r
        Prepared(p) ==
            IF ~p.ok THEN Returned(Failure(p.error), <<>>)
            ELSE IF cl = "undefined" THEN Returned(Failure("NameError"), <<>>)
            ELSE Caught(ClientAddGraphData(cl, fb, user_id, p.data, data_type, ok))
    IN  Prepared(ToolPrepare(data, data_type))

\* ------------------------------------------------------------------------
\* The arguments the calls are made with
\* ------------------------------------------------------------------------

\* Calls of tools the model follows before it stops taking more
MaxCalls == 2

Pad(k) == <<Run("x", k)>>

\* {"x":"xx...x"} with k letters: k + 8 characters
JsonObj(k) == Norm(Lit(<<"{", DQ, "x", DQ, ":", DQ>>) \o Pad(k) \o Lit(<<DQ, "}">>))

Quoted(q, s) == Norm(<<Run(q, 1)>> \o s \o <<Run(q, 1)>>)

\* {'x': 'xx...x'} with k letters, a Python dict display: k + 9 characters
PyObj(k) == Norm(Lit(<<"{", SQ, "x", SQ, ":", SP, SQ>>) \o Pad(k) \o Lit(<<SQ, "}">>))

\* {'x': 'x',}: single quotes and a trailing comma
TrailingCommaObj == Str(<<"{", SQ, "x", SQ, ":", " ", SQ, "x", SQ, ",", "}">>)

\* {x}: in braces, neither JSON nor a Python literal (a name in a set display)
NeitherObj == Str(<<"{", "x", "}">>)

\* x x: not JSON, and nothing a repair could start from
NotJson == Str(<<"x", " ", "x">>)

\* json.dumps({"x": "xx...x"}) with k letters: k + 9 characters
DumpsObj(k) ==
    Norm(Lit(<<"{", DQ, "x", DQ, ":", SP, DQ>>) \o Pad(k) \o Lit(<<DQ, "}">>))

\* {"x":"\/"}: the JSON escape of the solidus, which a Python literal does
\* not know
SolidusObj == Str(<<"{", DQ, "x", DQ, ":", DQ, BS, "/", DQ, "}">>)

PayloadTexts ==
    { <<>>, Pad(1), Pad(RestMaxData), Pad(RestMaxData + 1),
      Pad(SdkMaxData), Pad(SdkMaxData + 1),
      JsonObj(1), JsonObj(SdkMaxData - 8), JsonObj(SdkMaxData - 7),
      Quoted(DQ, JsonObj(1)), Quoted(SQ, JsonObj(1)),
      Quoted(SQ, JsonObj(SdkMaxData - 8)), Quoted(DQ, JsonObj(SdkMaxData - 7)),
      Quoted(SQ, JsonObj(SdkMaxData - 9)),
      Quoted(DQ, Pad(1)), Quoted(SQ, Quoted(DQ, Pad(1))), Quoted(SQ, Pad(1)),
      Quoted(DQ, Str(<<"x", DQ, "x">>)),
      SolidusObj, Quoted(SQ, SolidusObj), Quoted(DQ, SolidusObj),
      TrailingCommaObj, PyObj(1), PyObj(RestMaxData),
      NeitherObj,
      Str(<<" ", "{", DQ, "x", DQ, ":", DQ, "x", DQ, "}", " ">>),
      NotJson }

Payloads ==
    {NoData, DictData(DumpsObj(1), 1, TRUE), DictData(DumpsObj(1), 1, FALSE),
     DictData(DumpsObj(RestMaxData), 1, TRUE)}
    \cup {StrData(s) : s \in PayloadTexts}

UserIds == {"u1", "", NONE}
DataTypes == {"text", "json", "message", "bogus"}
Metadatas == {NONE, "null", "m1"}
Limits == {1, DefaultLimit}
Cursors == {NONE, "", "c1"}
Queries ==
    { <<>>, Pad(1), Str(<<"u", "s", "e", "r">>), Str(<<"m", "y", " ", "D", "a", "t", "a">>),
      Pad(MaxQuery), Pad(MaxQuery + 1), Pad(MaxQuery - 1),
      <<Run(SP, 2)>>,
      Norm(Str(<<"u", "s", "e", "r">>) \o Pad(MaxQuery)),
      Norm(Pad(MaxQuery) \o Str(<<"d", "a", "t", "a">>)) }

\* What the remote service may answer to a search: edges and nodes, either
\* of them empty or left out, and possibly a "results" member of its own
\* (which only the JSON of the REST API can hold).
SearchAnswers ==
    { [edges |-> Member(<<"e1", "e2">>), nodes |-> Member(<<"n1">>), results |-> Absent],
      [edges |-> Member(<<>>), nodes |-> Member(<<>>), results |-> Absent],
      [edges |-> Absent, nodes |-> Absent, results |-> Absent],
      [edges |-> Member(<<"e1">>), nodes |-> Absent, results |-> Absent],
      [edges |-> Member(<<"e1">>), nodes |-> Member(<<"n1">>),
       results |-> Member(<<"n1">>)] }

\* ------------------------------------------------------------------------
\* State
\* ------------------------------------------------------------------------

VARIABLES
    pc,              \* "import", "create": module start-up; "serving": waiting
                     \* for a call; "responded": a call has returned
    sdkInstalled,    \* the environment: zep_cloud_client and the SDK import
    apiKeySet,       \* the environment: ZEP_API_KEY is set
    zepCtorOk,       \* the environment: Zep(api_key=...) does not raise
    remoteUp,        \* the remote service is reachable and accepts requests
    use_new_client,  \* server module: the SDK-backed client was imported
    client,          \* server module: "undefined", "sdk" or "rest"
    clientFallback,  \* client.fallback_mode
    fallback_mode,   \* server module: fallback_mode
    tool_count,      \* server module: tool_count
    probes,          \* connectivity probes made while the client was constructed
    probeOk,         \* such a probe succeeded
    last,            \* the call that has just returned, with what it sent
    users,           \* the remote service: the metadata it holds for each user
                     \* id (Gone: it holds no such user)
    reported         \* the caller: the last create_user, update_user or
                     \* delete_user of a user that reported success

vars == <<pc, sdkInstalled, apiKeySet, zepCtorOk, remoteUp, use_new_client, client,
          clientFallback, fallback_mode, tool_count, probes, probeOk, last, users,
          reported>>

env == <<sdkInstalled, apiKeySet, zepCtorOk>>
store == <<users, reported>>

\* The user ids the remote service can hold a user for (a non-empty string)
RemoteIds == {"u1"}

\* The remote service holds no such user
Gone == "<gone>"

\* Metadata stored by an earlier run of a client
EarlierMetadata == "m0"

NothingReported == [op |-> "none", metadata |-> NONE]
server == <<use_new_client, client, clientFallback, fallback_mode, probes, probeOk>>

\* No search was answered by the remote service
NoAnswer == [edges |-> Absent, nodes |-> Absent, results |-> Absent]

NoCall ==
    [layer |-> "none", op |-> "", user_id |-> NONE, data |-> NoData, kind |-> "",
     query |-> <<>>, metadata |-> NONE, out |-> Returned(NoResult, <<>>),
     answer |-> NoAnswer, status |-> "unsent"]

Init ==
    /\ pc = "import"
    /\ sdkInstalled \in BOOLEAN
    /\ apiKeySet \in BOOLEAN
    /\ zepCtorOk \in BOOLEAN
    /\ remoteUp \in BOOLEAN
    /\ use_new_client = FALSE
    /\ client = "undefined"
    /\ clientFallback = FALSE
    /\ fallback_mode = FALSE
    /\ tool_count = 0
    /\ probes = 0
    /\ probeOk = FALSE
    /\ last = NoCall
    /\ users \in [RemoteIds -> {Gone, EarlierMetadata}]
    /\ reported = [u \in RemoteIds |-> NothingReported]

\* The import of ZepCloudClient at module level
import_client ==
    /\ pc = "import"
    /\ use_new_client' = sdkInstalled
    /\ pc' = "create"
    /\ UNCHANGED <<env, remoteUp, client, clientFallback, fallback_mode, tool_count,
                   probes, probeOk, last, store>>

\* ZepCloudClient.__init__ (SDK) raises without ZEP_API_KEY and when the SDK
\* constructor raises; it makes no request.
SdkInitRaises == ~apiKeySet \/ ~zepCtorOk

\* ZepCloudClient.test_connection (REST): the value of fallback_mode after
\* the probe GET /health, whose success is probe_ok
TestConnection(probe_ok) == ~probe_ok

\* The construction of the module-level client and of fallback_mode
create_client ==
    /\ pc = "create"
    /\ pc' = "serving"
    /\ IF use_new_client
       THEN /\ probes' = 0
            /\ probeOk' = FALSE
            /\ clientFallback' = FALSE
            /\ IF SdkInitRaises
               THEN client' = "undefined" /\ fallback_mode' = TRUE
               ELSE client' = "sdk" /\ fallback_mode' = clientFallback'
       ELSE \E probe_ok \in {b \in BOOLEAN : b => remoteUp} :
            /\ probes' = 1
            /\ probeOk' = probe_ok
            /\ client' = "rest"
            /\ clientFallback' = TestConnection(probe_ok)
            /\ fallback_mode' = clientFallback'
    /\ UNCHANGED <<env, remoteUp, use_new_client, tool_count, last, store>>

\* The remote service answers a request made now with success or not
Answers == {b \in BOOLEAN : b => remoteUp}

\* What became of the request of a call: "unsent" (the call made none),
\* "accepted" or "failed" (no answer, or a status that is not 2xx)
Outcome(sent, ok) ==
    IF sent = <<>> THEN "unsent" ELSE IF ok THEN "accepted" ELSE "failed"

\* A tool is entered: tool_count += 1; it returns `out`. The request it
\* made, if any, was answered with ok by the remote service.
ToolCall(op, user_id, data, kind, query, metadata, ok, out) ==
    /\ tool_count' = tool_count + 1
    /\ last' = [layer |-> "tool", op |-> op, user_id |-> user_id, data |-> data,
                kind |-> kind, query |-> query, metadata |-> metadata, out |-> out,
                answer |-> NoAnswer, status |-> Outcome(out.sent, ok)]
    /\ pc' = "responded"
    /\ UNCHANGED <<env, remoteUp, server, store>>

Ready == pc = "serving" /\ tool_count < MaxCalls

\* The remote service holds the user
Holds(user_id) == user_id \in RemoteIds /\ users[user_id] # Gone

\* The metadata the remote service holds for the user
Stored(user_id) == IF Holds(user_id) THEN users[user_id] ELSE Gone

\* The remote service accepts a request about a user that reaches it: it
\* creates no user it already holds and no user without an id, and it
\* finds, changes and deletes only a user it holds (any other request gets
\* a status that is not 2xx).
RemoteAccepts(op, user_id) ==
    /\ user_id \in RemoteIds
    /\ (op = "create_user") = ~Holds(user_id)

\* What became of the request of a call: "unsent" (the call made none),
\* "accepted", "refused" (the remote service answered with a status that is
\* not 2xx) or "failed" (no answer, or an answer that turns every request
\* away)
Status(op, user_id, sent, answered) ==
    IF sent = <<>> THEN "unsent"
    ELSE IF ~answered THEN "failed"
    ELSE IF RemoteAccepts(op, user_id) THEN "accepted"
    ELSE "refused"

\* The call reported success: it returned a dict that is not a failure,
\* or True
ReportsSuccess(out) ==
    /\ out.raised = ""
    /\ \/ out.res.shape = "true"
       \/ out.res.shape = "dict" /\ out.res.success # "false"

\* The users of the remote service after it has answered the requests
\* `sent` of the operation with ok: a created user holds the metadata of the
\* request (none: the empty mapping), an updated one the metadata of the
\* request (none: the metadata it had), a deleted one is gone.
UsersAfter(op, user_id, sent, ok) ==
    IF sent = <<>> \/ ~ok \/ user_id \notin RemoteIds THEN users
    ELSE IF op = "create_user"
         THEN [users EXCEPT ![user_id] =
                  IF sent[1].meta = "absent" THEN "{}" ELSE sent[1].meta]
    ELSE IF op = "update_user"
         THEN [users EXCEPT ![user_id] =
                  IF sent[1].meta = "absent" THEN @ ELSE sent[1].meta]
    ELSE IF op = "delete_user" THEN [users EXCEPT ![user_id] = Gone]
    ELSE users

\* What the caller has been told about the user after the call
ReportedAfter(op, user_id, metadata, out) ==
    IF user_id \in RemoteIds /\ op # "get_user" /\ ReportsSuccess(out)
    THEN [reported EXCEPT ![user_id] =
             [op |-> op,
              metadata |-> IF op = "delete_user" THEN NONE
                           ELSE IF metadata = "null" THEN "{}"
                           ELSE OrEmpty(metadata)]]
    ELSE reported

\* A tool on a user is entered: tool_count += 1; it returns `out`. The
\* request it made, if any, was answered (answered) and accepted (ok) by the
\* remote service.
UserCall(op, user_id, metadata, answered, ok, out) ==
    /\ tool_count' = tool_count + 1
    /\ last' = [layer |-> "tool", op |-> op, user_id |-> user_id, data |-> NoData,
                kind |-> "", query |-> <<>>, metadata |-> metadata, out |-> out,
                answer |-> NoAnswer,
                status |-> Status(op, user_id, out.sent, answered)]
    /\ users' = UsersAfter(op, user_id, out.sent, ok)
    /\ reported' = ReportedAfter(op, user_id, metadata, out)
    /\ pc' = "responded"
    /\ UNCHANGED <<env, remoteUp, server>>

create_user ==
    /\ Ready
    /\ \E user_id \in UserIds, metadata \in Metadatas, answered \in Answers :
          LET ok == answered /\ RemoteAccepts("create_user", user_id) IN
          UserCall("create_user", user_id, metadata, answered, ok,
                   CreateUserTool(client, clientFallback, user_id, metadata, ok))

get_user ==
    /\ Ready
    /\ \E user_id \in UserIds, answered \in Answers :
          LET ok == answered /\ RemoteAccepts("get_user", user_id) IN
          UserCall("get_user", user_id, NONE, answered, ok,
                   GetUserTool(client, clientFallback, user_id, ok, Stored(user_id)))

update_user ==
    /\ Ready
    /\ \E user_id \in UserIds, metadata \in Metadatas, answered \in Answers :
          LET ok == answered /\ RemoteAccepts("update_user", user_id) IN
          UserCall("update_user", user_id, metadata, answered, ok,
                   UpdateUserTool(client, clientFallback, user_id, metadata, ok))

delete_user ==
    /\ Ready
    /\ \E user_id \in UserIds, answered \in Answers :
          LET ok == answered /\ RemoteAccepts("delete_user", user_id) IN
          UserCall("delete_user", user_id, NONE, answered, ok,
                   DeleteUserTool(client, clientFallback, user_id, ok))

list_users ==
    /\ Ready
    /\ \E limit \in Limits, cursor \in Cursors, ok \in Answers :
          ToolCall("list_users", NONE, NoData, "", <<>>, NONE, ok,
                   ListUsersTool(client, clientFallback, limit, cursor, ok))

\* check_connection written to probe the remote service again and to set
\* fallback_mode from the outcome.
check_connection_reprobes ==
    /\ Ready
    /\ tool_count' = tool_count + 1
    /\ probes' = probes + 1
    /\ probeOk' = remoteUp
    /\ fallback_mode' = ~remoteUp
    /\ last' = [layer |-> "tool", op |-> "check_connection", user_id |-> NONE,
                data |-> NoData, kind |-> "", query |-> <<>>, metadata |-> NONE,
                out |-> CheckConnectionTool(~remoteUp), answer |-> NoAnswer,
                status |-> "unsent"]
    /\ pc' = "responded"
    /\ UNCHANGED <<env, remoteUp, use_new_client, client, clientFallback, store>>

check_connection ==
    /\ Ready
    /\ ToolCall("check_connection", NONE, NoData, "", <<>>, NONE, FALSE,
                CheckConnectionTool(fallback_mode))

\* last.answer is what the remote service answered to the request of the
\* search, when a request was made and answered.
search_graph ==
    /\ Ready
    /\ \E user_id \in UserIds, query \in Queries, ok \in Answers,
          answer \in SearchAnswers :
          LET Responded(out) ==
                  [layer |-> "tool", op |-> "search_graph", user_id |-> user_id,
                   data |-> NoData, kind |-> "", query |-> query, metadata |-> NONE,
                   out |-> out,
                   answer |-> IF ok /\ out.sent # <<>> THEN answer ELSE NoAnswer,
                   status |-> Outcome(out.sent, ok)]
          IN  last' = Responded(SearchGraphTool(client, clientFallback, user_id, query,
                                                ok, answer))
    /\ tool_count' = tool_count + 1
    /\ pc' = "responded"
    /\ UNCHANGED <<env, remoteUp, server, store>>

add_graph_data ==
    /\ Ready
    /\ \E user_id \in UserIds, data \in Payloads, data_type \in DataTypes, ok \in Answers :
          ToolCall("add_graph_data", user_id, data, data_type, <<>>, NONE, ok,
                   AddGraphDataTool(client, clientFallback, user_id, data, data_type, ok))

\* client.add_graph_data called on a constructed client without the tool
\* (the scripts under src/scripts do so)
client_add_graph_data ==
    /\ pc = "serving"
    /\ client # "undefined"
    /\ \E user_id \in UserIds, data \in Payloads, data_type \in DataTypes, ok \in Answers :
          LET Responded(out) ==
                  [layer |-> "client", op |-> "add_graph_data", user_id |-> user_id,
                   data |-> data, kind |-> data_type, query |-> <<>>, metadata |-> NONE,
                   out |-> out, answer |-> NoAnswer, status |-> Outcome(out.sent, ok)]
          IN  last' = Responded(ClientAddGraphData(client, clientFallback, user_id, data,
                                                   data_type, ok))
    /\ pc' = "responded"
    /\ UNCHANGED <<env, remoteUp, server, tool_count, store>>

\* The caller takes the result; the server waits for the next call.
Deliver ==
    /\ pc = "responded"
    /\ pc' = "serving"
    /\ last' = NoCall
    /\ UNCHANGED <<env, remoteUp, server, tool_count, store>>

\* The remote service becomes unreachable, or reachable again.
RemoteChanges ==
    /\ pc = "serving"
    /\ remoteUp' = ~remoteUp
    /\ UNCHANGED <<pc, env, server, tool_count, last, store>>

Next ==
    \/ import_client
    \/ create_client
    \/ create_user
    \/ get_user
    \/ update_user
    \/ delete_user
    \/ list_users
    \/ check_connection
    \/ search_graph
    \/ add_graph_data
    \/ client_add_graph_data
    \/ Deliver
    \/ RemoteChanges

Spec == Init /\ [][Next]_vars

\* ------------------------------------------------------------------------
\* Properties
\* ------------------------------------------------------------------------

Started == pc \in {"serving", "responded"}
ToolResponded == pc = "responded" /\ last.layer = "tool"
AddResponded == pc = "responded" /\ last.op = "add_graph_data"
FacadeOps ==
    {"create_user", "get_user", "update_user", "delete_user", "list_users",
     "search_graph", "add_graph_data"}
\* A call whose arguments no validation turns away
WellFormed ==
    /\ last.op \in {"list_users", "check_connection"} \/ last.user_id = "u1"
    /\ last.op = "add_graph_data" =>
          last.data.t = "str" /\ last.kind \in {"text", "message"}
Rejected(out) == out.raised = "" /\ out.res.success = "false" /\ out.sent = <<>>
Bool(b) == IF b THEN "true" ELSE "false"

\* C1: while fallback mode is true, every facade operation called through
\* the tool layer returns a synthesized success result tagged fallback: true
\* and issues no request to the remote service. Stated for the calls with
\* well-formed arguments, which no validation turns away.
C1_FallbackSimulated ==
    (ToolResponded /\ last.op \in FacadeOps /\ fallback_mode /\ WellFormed) =>
        /\ last.out.raised = ""
        /\ last.out.res.success = "true"
        /\ last.out.res.fallback
        /\ last.out.sent = <<>>

\* C2: construction makes one connectivity probe; when the probe fails
\* fallback mode is true once construction has finished, and fallback mode
\* is false only if the probe succeeded.
C2_ProbeDecides ==
    (Started /\ client # "undefined") =>
        /\ probes = 1
        /\ ~probeOk => fallback_mode
        /\ ~fallback_mode => probeOk

\* C3: fallback mode is decided once at construction: no step taken after
\* construction has finished, whatever the outcome of the call, changes the
\* server's or the client's connectivity flag, and none probes the remote
\* service again.
C3_DecidedOnce ==
    [][Started =>
          /\ fallback_mode' = fallback_mode
          /\ clientFallback' = clientFallback
          /\ probes' = probes
          /\ probeOk' = probeOk]_vars

\* A second tool call has just failed at the remote service, which went down
\* after a successful probe: the flag still says connected.
C3_FailedCallKeepsFlag ==
    /\ ToolResponded
    /\ tool_count = 2
    /\ probeOk
    /\ ~remoteUp
    /\ ~fallback_mode
    /\ last.out.sent # <<>>
    /\ last.out.res.success = "false"

\* C4: check_connection reports fallback_mode = F and connected = not F, and
\* the result of every other operation is tagged fallback: true exactly
\* when F is true. Stated for the calls with well-formed arguments.
C4_FallbackDetectable ==
    (ToolResponded /\ WellFormed) =>
        IF last.op = "check_connection"
        THEN /\ last.out.res.fallback_mode = Bool(fallback_mode)
             /\ last.out.res.connected = Bool(~fallback_mode)
        ELSE /\ last.out.raised = ""
             /\ last.out.res.fallback <=> fallback_mode

\* C5: without ZEP_API_KEY the construction of the client fails and start-up
\* is aborted: the server never gets to serve tool calls.
C5_MissingKeyFatal == ~apiKeySet => ~Started

\* C6: no tool call throws across the tool-call boundary: every call returns
\* JSON text.
C6_ToolsNeverThrow == ToolResponded => last.out.raised = ""

\* C7: the result of every operation (user CRUD, list, search, ingestion)
\* holds a boolean success field, and a failure holds success = false
\* together with an error string. The remote service's JSON, which the
\* REST-backed client hands back as it came, is taken to hold the field.
C7_SuccessField ==
    (pc = "responded" /\ last.op \in FacadeOps /\ last.out.raised = "") =>
        /\ last.out.res.shape = "dict"
        /\ last.out.res.success \in {"true", "false", "remote"}
        /\ last.out.res.success = "false" => last.out.res.error # ""

\* C8: for a kind outside {text, json, message}, add_graph_data on every
\* path (tool, SDK-backed client, REST-backed client, in normal and in
\* fallback mode) returns a failure result and sends no request. Stated for
\* the calls that name a user and carry a str payload, so that the kind is
\* the one reason to reject.
C8_InvalidKindRejected ==
    (AddResponded /\ last.kind \notin valid_types
       /\ last.user_id = "u1" /\ last.data.t = "str") => Rejected(last.out)

\* The ceiling configured for the client in use
Ceiling == IF client = "sdk" THEN SdkMaxData ELSE RestMaxData

Reaching ==
    IF last.layer = "tool" THEN ToolPrepare(last.data, last.kind)
    ELSE [ok |-> TRUE, data |-> last.data, error |-> ""]

C10_MissingArgumentRejected ==
    (AddResponded /\ client # "undefined" /\ ~clientFallback
       /\ (last.user_id \in {"", NONE} \/ last.data.t = "none"))
        => Rejected(last.out)

\* C11: for kind = json, every payload add_graph_data transmits to the remote
\* service is syntactically valid JSON text, on every transport and for
\* every payload, of any length. Stated for the calls made through the tool,
\* whose JSON handling has accepted the payload before the client is called.
C11_TransmittedJsonValid ==
    (AddResponded /\ last.layer = "tool" /\ last.kind = "json"
       /\ last.user_id = "u1" /\ last.out.sent # <<>>)
        => JsonLoadsOk(last.out.sent[1].data)

\* C12: a str payload that is already valid JSON text is forwarded unchanged
\* by add_graph_data with kind = json, through the tool and by the client
\* called directly: what is transmitted is the caller's text, and no quote
\* is stripped and no literal re-interpreted on the way.
C12_ValidJsonForwarded ==
    (AddResponded /\ last.kind = "json" /\ last.user_id = "u1"
       /\ last.data.t = "str" /\ JsonLoadsOk(last.data.s)
       /\ last.out.sent # <<>>)
        => last.out.sent[1].data = last.data.s

RECURSIVE Compact(_, _, _)
\* The JSON text in the tokens of t from i on, without the whitespace
\* between its tokens and with the escape \/ written as the solidus it
\* stands for; inStr tells whether token i lies inside a string.
Compact(t, i, inStr) ==
    IF i > Len(t) THEN <<>>
    ELSE IF inStr THEN
        IF t[i].c = BS THEN
            IF Tok(t, i + 1) = "/" THEN <<t[i + 1]>> \o Compact(t, i + 2, TRUE)
            ELSE IF i + 1 > Len(t) THEN <<t[i]>>
            ELSE <<t[i], t[i + 1]>> \o Compact(t, i + 2, TRUE)
        ELSE <<t[i]>> \o Compact(t, i + 1, t[i].c # DQ)
    ELSE IF t[i].c = SP THEN Compact(t, i + 1, FALSE)
    ELSE <<t[i]>> \o Compact(t, i + 1, t[i].c = DQ)

\* Two JSON texts that differ only in the whitespace between tokens and in
\* the spelling of the solidus hold the same value; over the payloads of the
\* model every other difference is a difference in value.
SameJsonValue(a, b) ==
    Norm(Compact(Explode(a), 1, FALSE)) = Norm(Compact(Explode(b), 1, FALSE))

\* A JSON object or array wrapped in one pair of quote characters, which
\* as it stands is not JSON
Wrapped(s) ==
    /\ \E q \in {SQ, DQ} : StartsWith(s, q) /\ EndsWith(s, q)
    /\ StrLen(s) > 2
    /\ StartsWith(Inner(s), "{") \/ StartsWith(Inner(s), "[")
    /\ JsonLoadsOk(Inner(s))
    /\ ~JsonLoadsOk(s)

\* C13: for a payload that is a JSON object or array wrapped in exactly one
\* redundant pair of quote characters, the add_graph_data tool with kind =
\* json removes the pair and ingestion proceeds with a payload equal in
\* value to the interior JSON. Stated for a named user, a client out of
\* fallback mode and a payload within the ceiling of the client, so that
\* nothing but the JSON handling decides the outcome.
C13_WrappedJsonRecovered ==
    (AddResponded /\ last.layer = "tool" /\ last.kind = "json"
       /\ last.user_id = "u1" /\ last.data.t = "str"
       /\ client # "undefined" /\ ~clientFallback
       /\ StrLen(last.data.s) <= Ceiling /\ Wrapped(last.data.s))
        => /\ last.out.sent # <<>>
           /\ SameJsonValue(last.out.sent[1].data, Inner(last.data.s))

\* The Python dict displays among the payloads, none of them JSON, each with
\* the JSON text of its value
Literals ==
    { [text |-> TrailingCommaObj, value |-> JsonObj(1)],
      [text |-> PyObj(1), value |-> JsonObj(1)],
      [text |-> PyObj(RestMaxData), value |-> JsonObj(RestMaxData)] }

\* C14: for a payload that is a Python literal dict and not valid JSON
\* (single-quoted keys and values, trailing comma), the add_graph_data tool
\* with kind = json transmits valid JSON text whose value equals the value
\* of the literal; a payload in braces that is neither valid JSON nor a
\* valid literal is rejected. Stated for a named user and a client out of
\* fallback mode.
C14_LiteralRecovered ==
    (AddResponded /\ last.layer = "tool" /\ last.kind = "json"
       /\ last.user_id = "u1" /\ client # "undefined" /\ ~clientFallback) =>
        /\ \A l \in Literals :
              last.data = StrData(l.text) =>
                  /\ last.out.sent # <<>>
                  /\ JsonLoadsOk(last.out.sent[1].data)
                  /\ SameJsonValue(last.out.sent[1].data, l.value)
        /\ last.data = StrData(NeitherObj) => Rejected(last.out)

\* C15: when a str payload with kind = json can be neither parsed nor
\* repaired, add_graph_data returns success = false with an error that
\* mentions invalid JSON and the remote service is not contacted, through
\* the tool and by the client called directly. Stated for the payloads no
\* repair applies to, a named user and a client out of fallback mode.
C15_InvalidJsonRejected ==
    (AddResponded /\ last.kind = "json" /\ last.user_id = "u1"
       /\ client # "undefined" /\ ~clientFallback
       /\ last.data \in {StrData(NotJson), StrData(NeitherObj), StrData(Pad(1))})
        => /\ Rejected(last.out)
           /\ last.out.res.error \in {"Invalid JSON format", "Invalid JSON data"}

\* C16: when kind = json and the payload is a structured value,
\* add_graph_data serialises it to JSON text and ingestion proceeds with
\* that text: the request carries the text json.dumps gives for the value;
\* when the value cannot be serialised a failure result is returned and the
\* remote service is not contacted. Stated for a named user and a client
\* out of fallback mode.
C16_DictSerialised ==
    (AddResponded /\ last.kind = "json" /\ last.user_id = "u1"
       /\ last.data.t = "dict" /\ client # "undefined" /\ ~clientFallback) =>
        IF last.data.ser
        THEN last.out.sent =
                <<Req(IF client = "sdk" THEN "graph.add" ELSE "POST /graph",
                      "u1", "json", last.data.s)>>
        ELSE Rejected(last.out)

\* C17: the query search_graph transmits to the remote service has at most
\* MaxQuery characters, and exactly MaxQuery when the caller's query is
\* longer than that; this holds after the rewriting of the query by the
\* tool and on both clients.
C17_QueryBounded ==
    (pc = "responded" /\ last.op = "search_graph" /\ last.user_id = "u1"
       /\ last.out.sent # <<>>) =>
        /\ StrLen(last.out.sent[1].data) <= MaxQuery
        /\ StrLen(last.query) > MaxQuery => StrLen(last.out.sent[1].data) = MaxQuery

\* Does the query name one of the terms user, information, data, in any case?
HasTerm(q) ==
    \/ Contains(Lower(q), Str(<<"u", "s", "e", "r">>))
    \/ Contains(Lower(q), Str(<<"i", "n", "f", "o", "r", "m", "a", "t", "i", "o", "n">>))
    \/ Contains(Lower(q), Str(<<"d", "a", "t", "a">>))

\* q followed by " user information"
Suffixed(q) == Concat(q, Concat(<<Run(SP, 1)>>, UserInformation))

\* A search has returned through the tool on the REST-backed client, where
\* the query handed to the client can be read off: it is the query of the
\* request, and in fallback mode the "query" of the simulated result.
SearchHanded ==
    /\ ToolResponded
    /\ last.op = "search_graph"
    /\ client = "rest"
HandedQuery ==
    IF clientFallback THEN last.out.res.query.s ELSE last.out.sent[1].data

SearchSucceeded ==
    /\ pc = "responded"
    /\ last.op = "search_graph"
    /\ last.out.raised = ""
    /\ last.out.res.shape = "dict"
    /\ last.out.res.success = "true"

\* C19 as claimed: in every successful search_graph result, results is the
\* edges followed by the nodes, each in the order of the remote service, so
\* that len(results) = len(edges) + len(nodes), for every remote response
\* and on both clients. A key the result lacks counts as an empty sequence.
C19_ResultsFlattened ==
    SearchSucceeded =>
        /\ last.out.res.results.has
        /\ last.out.res.results.items =
              last.out.res.edges.items \o last.out.res.nodes.items
        /\ Len(last.out.res.results.items) =
              Len(last.out.res.edges.items) + Len(last.out.res.nodes.items)

\* C19: in every successful search_graph result of the SDK-backed client,
\* and of the REST-backed client when the remote response has no "results"
\* member of its own, results is the edges followed by the nodes, each in
\* the order of the remote service; a "results" member of the remote
\* response is handed back by the REST-backed client as it came.
C19_FlattenedUnlessGiven ==
    SearchSucceeded =>
        /\ last.out.res.results.has
        /\ last.out.sent # <<>> =>
              /\ last.out.res.edges.items = last.answer.edges.items
              /\ last.out.res.nodes.items = last.answer.nodes.items
        /\ IF client = "rest" /\ last.answer.results.has
           THEN last.out.res.results.items = last.answer.results.items
           ELSE /\ last.out.res.results.items =
                      last.out.res.edges.items \o last.out.res.nodes.items
                /\ Len(last.out.res.results.items) =
                      Len(last.out.res.edges.items) + Len(last.out.res.nodes.items)

\* The REST-backed client has just flattened two edges and a node of the
\* remote response into results.
C19_EdgesThenNodes ==
    /\ SearchSucceeded
    /\ client = "rest"
    /\ last.answer.edges.items = <<"e1", "e2">>
    /\ last.out.res.results.items = <<"e1", "e2", "n1">>

\* C20: whatever the client and whether or not the remote service returned
\* edges or nodes, every successful search_graph result holds edges, nodes,
\* results and summary, edges and nodes being empty sequences when there
\* are none, and the summary tells the number of results with the numbers
\* of nodes and of edges (a number of 0 may go unsaid). Stated for a named
\* user and for the results the clients build themselves: those of the
\* SDK-backed client and the simulated ones of fallback mode.
C20_UniformEnvelope ==
    (SearchSucceeded /\ last.user_id = "u1" /\ (client = "sdk" \/ clientFallback)) =>
        /\ last.out.res.edges.has
        /\ last.out.res.nodes.has
        /\ last.out.res.results.has
        /\ last.out.res.summary.results = Len(last.out.res.results.items)
        /\ last.out.res.summary.nodes = Len(last.out.res.nodes.items)
        /\ last.out.res.summary.edges = Len(last.out.res.edges.items)

\* A get_user of a user the remote service can hold has returned
GotUser ==
    /\ ToolResponded
    /\ last.op = "get_user"
    /\ last.user_id \in RemoteIds

\* The result holds no user: None
AbsentResult(out) == out.raised = "" /\ out.res.shape = "none"

\* C21: user lifecycle, with a client that is not in fallback mode. A
\* get_user(u) that reports success after a create_user(u, m) that reported
\* success returns the record with user_id u and metadata m (no metadata:
\* the empty mapping); a get_user(u) after a delete_user(u) that reported
\* success returns an absent result, unless the request of the get_user got
\* no answer from the remote service.
C21_UserLifecycle ==
    GotUser /\ ~clientFallback =>
       LET told == reported[last.user_id] IN
       /\ told.op = "create_user" /\ ReportsSuccess(last.out) =>
             /\ last.out.res.shape = "dict"
             /\ last.out.res.user_id = last.user_id
             /\ last.out.res.metadata = told.metadata
       /\ told.op = "delete_user" /\ last.status # "failed" =>
             AbsentResult(last.out)

\* C22: a get_user whose request the remote service answered by telling
\* that it holds no such user returns an absent result, with either client:
\* not a failure, not an exception.
C22_MissingUserAbsent ==
    GotUser /\ last.status = "refused" /\ ~Holds(last.user_id) =>
       AbsentResult(last.out)

\* An update_user of a user the remote service can hold has returned
UpdatedUser ==
    /\ ToolResponded
    /\ last.op = "update_user"
    /\ last.user_id \in RemoteIds

\* The metadata mapping the caller supplied (none, or the string "null":
\* the empty mapping)
Supplied(metadata) == IF metadata = "null" THEN "{}" ELSE OrEmpty(metadata)

\* C23: update_user replaces the metadata in full. The request an
\* update_user sends carries exactly the metadata mapping the caller
\* supplied (none: the empty mapping), and once the remote service has
\* accepted it the user's metadata is that mapping, whatever was stored
\* before, and it is the metadata of the record handed back.
C23_MetadataReplaced ==
    UpdatedUser =>
       /\ last.out.sent # <<>> =>
             /\ Len(last.out.sent) = 1
             /\ last.out.sent[1].user_id = last.user_id
             /\ last.out.sent[1].meta = Supplied(last.metadata)
       /\ last.status = "accepted" =>
             /\ users[last.user_id] = Supplied(last.metadata)
             /\ last.out.res.metadata = Supplied(last.metadata)

\* C23 witness: the first call of a server with the REST-backed client
\* updates, with no metadata, a user holding metadata of an earlier run; the
\* remote service accepts and holds the empty mapping for the user.
C23_EarlierMetadataReplaced ==
    /\ UpdatedUser
    /\ tool_count = 1
    /\ last.status = "accepted"
    /\ last.metadata = NONE
    /\ client = "rest"
    /\ users[last.user_id] = "{}"

\* What the tool op would have returned for the user with no metadata
WithoutMetadata(op, user_id, ok) ==
    IF op = "create_user"
    THEN CreateUserTool(client, clientFallback, user_id, NONE, ok)
    ELSE UpdateUserTool(client, clientFallback, user_id, NONE, ok)

\* C24: the string "null" given as metadata to create_user or update_user
\* is taken as no metadata. The call sends the request and returns the
\* result of the call with no metadata in the same state (the remote
\* service accepting the one as it accepts the other), and what it sends
\* carries no "null".
C24_NullIsNoMetadata ==
    /\ ToolResponded
    /\ last.op \in {"create_user", "update_user"}
    /\ last.metadata = "null"
    => /\ last.out = WithoutMetadata(last.op, last.user_id, last.status = "accepted")
       /\ \A i \in 1..Len(last.out.sent) : last.out.sent[i].meta # "null"
       /\ last.out.raised = "" /\ last.out.res.shape = "dict" =>
             last.out.res.success = "false" \/ last.out.res.metadata = "{}"

\* C24 witness: update_user with "null" on the SDK-backed client; the remote
\* service accepts the request, which carries the empty mapping.
C24_NullSentAsEmpty ==
    /\ ToolResponded
    /\ last.op = "update_user"
    /\ last.metadata = "null"
    /\ client = "sdk"
    /\ last.status = "accepted"
    /\ last.out.sent[1].meta = "{}"
    /\ users[last.user_id] = "{}"

\* C25: the list_users tool, with either client constructed, returns (it
\* raises nothing), for every limit and cursor.
C25_ListUsersReturns ==
    /\ ToolResponded
    /\ last.op = "list_users"
    /\ client \in {"sdk", "rest"}
    => last.out.raised = ""

\* C26: there is no retry. Every call, through a tool or on the client,
\* makes at most one request to the remote service; a call whose request
\* failed or was refused has made that one request only and hands the
\* failure back: it reports no success and raises nothing.
C26_NoRetry ==
    pc = "responded" =>
       /\ Len(last.out.sent) <= 1
       /\ last.status \in {"failed", "refused"} =>
             /\ Len(last.out.sent) = 1
             /\ last.out.raised = ""
             /\ ~ReportsSuccess(last.out)

\* C26 witness: a delete_user on the SDK-backed client whose one request
\* got no answer returned False.
C26_FailedOnce ==
    /\ ToolResponded
    /\ last.op = "delete_user"
    /\ client = "sdk"
    /\ last.status = "failed"
    /\ last.out.res.shape = "false"
    /\ Len(last.out.sent) = 1

\* The text is wrapped in one matching pair of quote characters q
QuotedBy(s, q) == StartsWith(s, q) /\ EndsWith(s, q) /\ StrLen(s) > 2

\* The text begins, after leading blanks, with { or [
Bracketed(s) == StartsWith(LStrip(s), "{") \/ StartsWith(LStrip(s), "[")

\* C27: quote stripping is applied only to a payload whose interior begins
\* with { or [. An add_graph_data tool call with kind = json, a named user
\* and a client out of fallback mode, whose payload does not parse, is
\* wrapped in one matching pair of double or single quotes and has an
\* interior that does not begin with { or [, is rejected: a failure result,
\* and nothing is sent.
C27_QuotedNonJsonRejected ==
    (AddResponded /\ last.layer = "tool" /\ last.kind = "json"
       /\ last.user_id = "u1" /\ last.data.t = "str"
       /\ client # "undefined" /\ ~clientFallback
       /\ ~JsonLoadsOk(last.data.s)
       /\ \E q \in {SQ, DQ} : QuotedBy(last.data.s, q)
       /\ ~Bracketed(Inner(last.data.s)))
        => Rejected(last.out)

\* C28: the repair stops at its first success. For an add_graph_data tool
\* call with kind = json (a named user, a client out of fallback mode, a
\* payload within the ceiling of the client) whose payload does not parse
\* and whose interior, the one pair of quotes removed, is a JSON object or
\* array that parses, literal re-interpretation is not attempted: the
\* payload transmitted is the stripped interior, character for character.
C28_StrippedInteriorSent ==
    (AddResponded /\ last.layer = "tool" /\ last.kind = "json"
       /\ last.user_id = "u1" /\ last.data.t = "str"
       /\ client # "undefined" /\ ~clientFallback
       /\ StrLen(last.data.s) <= Ceiling /\ Wrapped(last.data.s))
        => /\ Len(last.out.sent) = 1
           /\ last.out.sent[1].data = Inner(last.data.s)

\* add_graph_data has been called on the constructed SDK-backed client,
\* without the tool, with kind = json, a named user and a str within the
\* size limit
SdkDirectJson ==
    /\ AddResponded /\ last.layer = "client" /\ client = "sdk"
    /\ last.kind = "json" /\ last.user_id = "u1" /\ last.data.t = "str"
    /\ StrLen(last.data.s) <= SdkMaxData

\* C29: ZepCloudClient.add_graph_data (SDK) called directly with kind =
\* json repairs redundant double quotes only. A JSON object or array
\* wrapped in one pair of double quotes is accepted: one request, carrying
\* the interior, and success when the remote service accepts it; the same
\* wrapped in one pair of single quotes is rejected with success = false
\* and nothing is sent.
C29_DoubleQuotesOnly ==
    SdkDirectJson /\ Wrapped(last.data.s) =>
       /\ QuotedBy(last.data.s, DQ) =>
             /\ Len(last.out.sent) = 1
             /\ last.out.sent[1].data = Inner(last.data.s)
             /\ last.status = "accepted" => last.out.res.success = "true"
       /\ QuotedBy(last.data.s, SQ) => Rejected(last.out)

\* C29 witness: the SDK-backed client, called directly, sent the interior
\* of a double-quoted JSON object and the remote service accepted it.
C29_InteriorSubmitted ==
    /\ SdkDirectJson
    /\ last.data.s = Quoted(DQ, JsonObj(1))
    /\ last.status = "accepted"
    /\ last.out.res.success = "true"
    /\ last.out.sent[1].data = JsonObj(1)

\* C30: the two validation layers agree. Whenever the add_graph_data tool
\* calls the SDK-backed client with kind = json, the payload it hands over
\* is a str that parses as JSON, so that the validation of the client
\* accepts it as it is, without removing quotes, and whatever the call
\* sends carries exactly the string the tool produced.
C30_LayersAgree ==
    (AddResponded /\ last.layer = "tool" /\ client = "sdk" /\ last.kind = "json") =>
       LET Agree(handed) ==
               handed.ok =>
                  /\ handed.data.t = "str"
                  /\ JsonLoadsOk(handed.data.s)
                  /\ SdkValidateJson(handed.data.s) = [ok |-> TRUE, s |-> handed.data.s]
                  /\ \A i \in 1..Len(last.out.sent) :
                        last.out.sent[i].data = handed.data.s
       IN  Agree(Reaching)

\* C30 witness: the tool has repaired a Python dict display, and the
\* SDK-backed client has sent the repaired text, which the remote service
\* accepted.
C30_RepairedTextSent ==
    /\ AddResponded /\ last.layer = "tool" /\ client = "sdk" /\ last.kind = "json"
    /\ last.data = StrData(PyObj(1))
    /\ last.status = "accepted"
    /\ last.out.sent[1].data = DumpsObj(1)

====
